---- MODULE Spec2Model ----
(***************************************************************************)
(* The Neighbor Information Base of sys/net/gnrc/network_layer/ipv6/nib/   *)
(* _nib-internal.c: the on-link node pool with its mode bits, the FIFO of  *)
(* removable neighbor cache entries, the default router list with its      *)
(* prime router, the off-link entry pool with the longest prefix match,    *)
(* the authoritative border routers, and the event timer of the NIB.       *)
(*                                                                         *)
(* Pool slots are numbered from 1; 0 is the NULL pointer.  An IPv6 address *)
(* is a number of ADDR_BITS bits (most significant bit first); 0 is the    *)
(* unspecified address and NULL_ADDR is a NULL address pointer.            *)
(***************************************************************************)
EXTENDS Integers, Sequences, FiniteSets, TLC

\* ---------------------------------------------------------------- bounds
NIB_NUMOF == 2
NIB_OFFL_NUMOF == 2
NIB_DEFAULT_ROUTER_NUMOF == 2
NIB_ABR_NUMOF == 1
SIXLOWPAN_CTX_SIZE == 1
ADDR_BITS == 2
MaxIface == 1
MaxPkts == 1
MaxHist == 4

\* the width of unsigned and of uint32_t in the model
UINT_BITS == 8

NULL == 0
NULL_ADDR == 0 - 1

Nodes == 1..NIB_NUMOF
Offls == 1..NIB_OFFL_NUMOF
Drs == 1..NIB_DEFAULT_ROUTER_NUMOF
Abrs == 1..NIB_ABR_NUMOF
Ctxs == 0..(SIXLOWPAN_CTX_SIZE - 1)

RECURSIVE Pow2(_)
Pow2(n) == IF n = 0 THEN 1 ELSE 2 * Pow2(n - 1)

\* unsigned arithmetic wraps at UINT_MOD; UINT32_MAX is the largest value
UINT_MOD == Pow2(UINT_BITS)
UINT32_MAX == UINT_MOD - 1

\* every specified address, and every destination
Addrs == 1..(Pow2(ADDR_BITS) - 1)
AllAddrs == 0..(Pow2(ADDR_BITS) - 1)
Ifaces == 1..MaxIface
PfxLens == 1..ADDR_BITS

\* states a caller may hand to _nib_nc_add (not DELAY, PROBE, REACHABLE)
NcAddStates == {"UNREACHABLE", "INCOMPLETE", "STALE"}
OfflKinds == {"FT", "RPL"}

Min(S) == CHOOSE x \in S : \A y \in S : x <= y

\* ------------------------------------------------------------ IPv6 bits
\* bit k (1 = most significant) of address a
AddrBit(a, k) == (a \div Pow2(ADDR_BITS - k)) % 2

\* ipv6_addr_match_prefix(): the number of leading bits a and b share
ipv6_addr_match_prefix(a, b) ==
    LET same == {k \in 0..ADDR_BITS : \A j \in 1..k : AddrBit(a, j) = AddrBit(b, j)}
    IN  CHOOSE k \in same : \A m \in same : m <= k

\* ipv6_addr_init_prefix(): the first `bits` bits of pfx over those of out
ipv6_addr_init_prefix(out, pfx, bits) ==
    LET low == Pow2(ADDR_BITS - bits)
    IN  (pfx \div low) * low + (out % low)

\* ------------------------------------------------------------- records
ZeroNode == [ipv6 |-> 0, iface |-> 0, mode |-> {}, nud |-> "UNMANAGED",
             ar |-> "GC", next |-> FALSE, nud_timeout |-> FALSE,
             pktqueue |-> 0]

ZeroOffl == [next_hop |-> NULL, pfx |-> 0, pfx_len |-> 0, mode |-> {},
             valid_until |-> 0, pref_until |-> 0, pfx_timeout |-> FALSE]

ZeroAbr == [addr |-> 0, pfxs |-> {}, ctxs |-> {}]

\* the forwarding table record of a caller before a call fills it
NoFte == [dst |-> NULL_ADDR, dst_len |-> NULL_ADDR, next_hop |-> NULL_ADDR,
          iface |-> NULL_ADDR, primary |-> FALSE]

VARIABLES
    nodes,              \* _nodes[GNRC_IPV6_NIB_NUMOF]
    next_removable,     \* _next_removable: the FIFO, head first
    def_routers,        \* _def_routers[]: next_hop of every slot
    prime_def_router,   \* _prime_def_router
    dsts,               \* _dsts[GNRC_IPV6_NIB_OFFL_NUMOF]
    abrs,               \* _abrs[GNRC_IPV6_NIB_ABR_NUMOF]
    nib_evtimer,        \* _nib_evtimer: the pending events <<type, ctx>>
    op,                 \* the operation called last, with its arguments
    ret,                \* what it returned
    fte,                \* the forwarding table record it was handed
    released,           \* the packets it released with EHOSTUNREACH
    dr_hist             \* what the calls of _nib_drl_get_dr() returned since
                        \* the last call of another function

vars == <<nodes, next_removable, def_routers, prime_def_router, dsts, abrs,
          nib_evtimer, op, ret, fte, released, dr_hist>>

\* the NIB as one value, handed through the functions of the file
Nib == [nodes |-> nodes, fifo |-> next_removable, drs |-> def_routers,
        prime |-> prime_def_router, dsts |-> dsts, abrs |-> abrs,
        evt |-> nib_evtimer, rel |-> 0]

Commit(nb) ==
    /\ nodes' = nb.nodes
    /\ next_removable' = nb.fifo
    /\ def_routers' = nb.drs
    /\ prime_def_router' = nb.prime
    /\ dsts' = nb.dsts
    /\ abrs' = nb.abrs
    /\ nib_evtimer' = nb.evt
    /\ released' = nb.rel

\* --------------------------------------------------------------- clist
SeqRemove(s, x) == SelectSeq(s, LAMBDA y : y # x)

\* clist_rpush(&_next_removable, node)
clist_rpush(nb, n) ==
    [nb EXCEPT !.fifo = Append(@, n), !.nodes[n].next = TRUE]

\* clist_lpop(&_next_removable): the list without its head; the popped
\* node keeps its next pointer
clist_lpop(nb) == [nb EXCEPT !.fifo = Tail(@)]

\* ------------------------------------------------------- on-link nodes
_nib_onl_get_if(node) == node.iface

_addr_equals(addr, node) ==
    (addr = NULL_ADDR) \/ (node.ipv6 = 0) \/ (addr = node.ipv6)

\* evtimer_del(): the event of a handle leaves the queue
evtimer_del(nb, type, ctx) == [nb EXCEPT !.evt = @ \ {<<type, ctx>>}]

\* _nib_onl_clear(): a node no table refers to is unlinked from the FIFO
\* and zeroed, timer handles included
_nib_onl_clear(nb, n) ==
    IF nb.nodes[n].mode = {}
    THEN [nb EXCEPT !.fifo = SeqRemove(@, n), !.nodes[n] = ZeroNode]
    ELSE nb

_override_node(nb, addr, iface, n) ==
    LET c == _nib_onl_clear(nb, n)
        a == IF addr # NULL_ADDR THEN [c EXCEPT !.nodes[n].ipv6 = addr] ELSE c
    IN  [a EXCEPT !.nodes[n].iface = iface]

\* _nib_onl_alloc(): <<the NIB afterwards, the node or NULL>>
_nib_onl_alloc(nb, addr, iface) ==
    LET exact == {i \in Nodes : /\ _nib_onl_get_if(nb.nodes[i]) = iface
                                /\ _addr_equals(addr, nb.nodes[i])}
        empty == {i \in Nodes : nb.nodes[i].mode = {}}
        \* the scan stops at the first exact match; before it, the first
        \* empty slot is remembered
        node == IF exact # {} THEN Min(exact)
                ELSE IF empty # {} THEN Min(empty) ELSE NULL
    IN  IF node # NULL THEN <<_override_node(nb, addr, iface, node), node>>
        ELSE <<nb, NULL>>

\* _is_gc() without the test of the mode bits
_is_gc_any_mode(node) == node.ar = "GC"

_is_gc(node) == (node.mode \ {"NC"} = {}) /\ (node.ar = "GC")

\* _nib_nc_remove() without the call of _nib_onl_clear()
_nib_nc_remove_keep(nb, n) ==
    LET a == [nb EXCEPT !.nodes[n].mode = @ \ {"NC"}]
        b == evtimer_del(evtimer_del(evtimer_del(a, "SND_NA", n),
                                     "REACH_TIMEOUT", n), "ADDR_REG_TIMEOUT", n)
    IN  [b EXCEPT !.nodes[n].pktqueue = 0, !.rel = @ + b.nodes[n].pktqueue]

\* _nib_nc_remove() that leaves the events of the node in the timer
_nib_nc_remove_no_timers(nb, n) ==
    LET a == [nb EXCEPT !.nodes[n].mode = @ \ {"NC"}]
        c == [a EXCEPT !.nodes[n].pktqueue = 0, !.rel = @ + a.nodes[n].pktqueue]
    IN  _nib_onl_clear(c, n)

\* _nib_nc_remove() that releases no packet
_nib_nc_remove_no_release(nb, n) ==
    LET a == [nb EXCEPT !.nodes[n].mode = @ \ {"NC"}]
        b == evtimer_del(evtimer_del(evtimer_del(a, "SND_NA", n),
                                     "REACH_TIMEOUT", n), "ADDR_REG_TIMEOUT", n)
    IN  _nib_onl_clear(b, n)

\* _nib_nc_remove()
_nib_nc_remove(nb, n) ==
    LET a == [nb EXCEPT !.nodes[n].mode = @ \ {"NC"}]
        b == evtimer_del(evtimer_del(evtimer_del(a, "SND_NA", n),
                                     "REACH_TIMEOUT", n), "ADDR_REG_TIMEOUT", n)
        \* every queued packet is released with EHOSTUNREACH
        c == [b EXCEPT !.nodes[n].pktqueue = 0, !.rel = @ + b.nodes[n].pktqueue]
    IN  _nib_onl_clear(c, n)

\* one turn of the loop of _cache_out_onl_entry() that does not give the
\* reused node the state of the caller
CacheOutBodyNoState(st, first, addr, iface, cstate) ==
    LET tmp == st.tmp
        gc == _is_gc(st.nb.nodes[tmp])
        a == IF gc
             THEN LET r == _override_node(_nib_nc_remove(st.nb, tmp), addr, iface, tmp)
                  IN  [r EXCEPT !.nodes[tmp].mode = {"NC"}]
             ELSE st.nb
        res == IF gc THEN tmp ELSE st.res
        b == clist_rpush(a, tmp)
    IN  IF res = NULL
        THEN [nb |-> clist_lpop(b), tmp |-> Head(b.fifo), res |-> res]
        ELSE [nb |-> b, tmp |-> tmp, res |-> res]

\* one turn of the loop of _cache_out_onl_entry(); st = [nb, tmp, res]
CacheOutBody(st, first, addr, iface, cstate) ==
    LET tmp == st.tmp
        gc == _is_gc(st.nb.nodes[tmp])
        a == IF gc
             THEN LET r == _override_node(_nib_nc_remove(st.nb, tmp), addr, iface, tmp)
                  IN  [r EXCEPT !.nodes[tmp].nud = cstate,
                                !.nodes[tmp].mode = {"NC"}]
             ELSE st.nb
        res == IF gc THEN tmp ELSE st.res
        b == clist_rpush(a, tmp)
    IN  IF res = NULL
        THEN [nb |-> clist_lpop(b), tmp |-> Head(b.fifo), res |-> res]
        ELSE [nb |-> b, tmp |-> tmp, res |-> res]

RECURSIVE CacheOutLoop(_, _, _, _, _)
CacheOutLoop(st, first, addr, iface, cstate) ==
    LET n == CacheOutBody(st, first, addr, iface, cstate)
    IN  IF (n.tmp # first) /\ (n.res # NULL)
        THEN CacheOutLoop(n, first, addr, iface, cstate)
        ELSE n

\* _cache_out_onl_entry(): <<the NIB afterwards, the node or NULL>>
_cache_out_onl_entry(nb, addr, iface, cstate) ==
    IF nb.fifo = <<>> THEN <<nb, NULL>>
    ELSE LET first == Head(nb.fifo)
             e == CacheOutLoop([nb |-> clist_lpop(nb), tmp |-> first, res |-> NULL],
                               first, addr, iface, cstate)
         IN  <<e.nb, e.res>>

\* _nib_nc_add() that does not queue the node for removal
_nib_nc_add_no_queue(nb, addr, iface, cstate) ==
    LET al == _nib_onl_alloc(nb, addr, iface)
        a == al[1]
        node == al[2]
    IN  IF node = NULL THEN _cache_out_onl_entry(nb, addr, iface, cstate)
        ELSE <<IF "NC" \notin a.nodes[node].mode
               THEN [a EXCEPT !.nodes[node].nud = cstate,
                              !.nodes[node].mode = @ \cup {"NC"}]
               ELSE a, node>>

\* _nib_nc_add(): <<the NIB afterwards, the node or NULL>>
_nib_nc_add(nb, addr, iface, cstate) ==
    LET al == _nib_onl_alloc(nb, addr, iface)
        a == al[1]
        node == al[2]
    IN  IF node = NULL THEN _cache_out_onl_entry(nb, addr, iface, cstate)
        ELSE LET b == IF "NC" \notin a.nodes[node].mode
                      THEN [a EXCEPT !.nodes[node].nud = cstate,
                                     !.nodes[node].mode = @ \cup {"NC"}]
                      ELSE a
                 c == IF ~b.nodes[node].next THEN clist_rpush(b, node) ELSE b
             IN  <<c, node>>

\* _nib_nc_set_reachable() with the address resolution state machine
_nib_nc_set_reachable(nb, n) ==
    [nb EXCEPT !.nodes[n].nud = "REACHABLE",
               !.nodes[n].nud_timeout = TRUE,
               !.evt = @ \cup {<<"REACH_TIMEOUT", n>>}]

\* ------------------------------------------------------ default routers
\* _node_unreachable() without the case of INCOMPLETE
_node_unreachable_only(node) == node.nud = "UNREACHABLE"

_node_unreachable(node) == node.nud \in {"UNREACHABLE", "INCOMPLETE"}

\* _nib_drl_add(): <<the NIB afterwards, the slot or NULL>>
_nib_drl_add(nb, router_addr, iface) ==
    LET exact == {d \in Drs : /\ nb.drs[d] # NULL
                              /\ _nib_onl_get_if(nb.nodes[nb.drs[d]]) = iface
                              /\ router_addr = nb.nodes[nb.drs[d]].ipv6}
        free == {d \in Drs : nb.drs[d] = NULL}
    IN  IF exact # {}
        THEN <<[nb EXCEPT !.nodes[nb.drs[Min(exact)]].mode = @ \cup {"DRL"}],
               Min(exact)>>
        ELSE IF free = {} THEN <<nb, NULL>>
        ELSE LET def_router == Min(free)
                 al == _nib_onl_alloc(nb, router_addr, iface)
                 node == al[2]
             IN  IF node = NULL THEN <<al[1], NULL>>
                 ELSE LET a == [al[1] EXCEPT !.drs[def_router] = node]
                          b == _override_node(a, router_addr, iface, node)
                      IN  <<[b EXCEPT !.nodes[node].mode = @ \cup {"DRL"}],
                            def_router>>

\* _nib_drl_remove() that leaves the prime router alone
_nib_drl_remove_keep_prime(nb, nib_dr) ==
    LET node == nb.drs[nib_dr]
    IN  IF node # NULL
        THEN LET c == _nib_onl_clear(
                          [nb EXCEPT !.nodes[node].mode = @ \ {"DRL"}], node)
             IN  [c EXCEPT !.drs[nib_dr] = NULL]
        ELSE nb

\* _nib_drl_remove()
\* _nib_drl_remove() that empties the slot and leaves the DRL bit set
_nib_drl_remove_keep_bit(nb, nib_dr) ==
    LET a == [nb EXCEPT !.drs[nib_dr] = NULL]
    IN  IF nib_dr = a.prime THEN [a EXCEPT !.prime = NULL] ELSE a

\* _nib_drl_remove() that clears the DRL bit and never frees the node
_nib_drl_remove_no_clear(nb, nib_dr) ==
    LET node == nb.drs[nib_dr]
        a == IF node # NULL
             THEN [nb EXCEPT !.nodes[node].mode = @ \ {"DRL"},
                             !.drs[nib_dr] = NULL]
             ELSE nb
    IN  IF nib_dr = a.prime THEN [a EXCEPT !.prime = NULL] ELSE a

_nib_drl_remove(nb, nib_dr) ==
    LET node == nb.drs[nib_dr]
        a == IF node # NULL
             THEN LET c == _nib_onl_clear(
                               [nb EXCEPT !.nodes[node].mode = @ \ {"DRL"}], node)
                  IN  [c EXCEPT !.drs[nib_dr] = NULL]
             ELSE nb
    IN  IF nib_dr = a.prime THEN [a EXCEPT !.prime = NULL] ELSE a

\* _nib_drl_iter(): the next occupied slot after last, or NULL
_nib_drl_iter(nb, last) ==
    LET occ == {d \in Drs : /\ d > last
                            /\ nb.drs[d] # NULL
                            /\ nb.nodes[nb.drs[d]].mode # {}}
    IN  IF occ = {} THEN NULL ELSE Min(occ)

\* the search loop of _nib_drl_get_dr() that always wraps around to the
\* first router when none is reachable
RECURSIVE DrlSearchWrap(_, _)
DrlSearchWrap(nb, ptr) ==
    LET p == _nib_drl_iter(nb, ptr)
    IN  IF p = NULL
        THEN <<[nb EXCEPT !.prime = _nib_drl_iter(nb, NULL)],
               _nib_drl_iter(nb, NULL)>>
        ELSE IF _node_unreachable(nb.nodes[nb.drs[p]]) THEN DrlSearchWrap(nb, p)
        ELSE <<[nb EXCEPT !.prime = p], p>>

\* the search loop of _nib_drl_get_dr(), from the slot after ptr
RECURSIVE DrlSearch(_, _)
DrlSearch(nb, ptr) ==
    LET p == _nib_drl_iter(nb, ptr)
    IN  IF p = NULL
        THEN LET next == _nib_drl_iter(nb, nb.prime)
                 np == IF (nb.prime = NULL) \/ (next = NULL)
                       THEN _nib_drl_iter(nb, NULL)
                       ELSE next
             IN  <<[nb EXCEPT !.prime = np], np>>
        ELSE IF _node_unreachable(nb.nodes[nb.drs[p]]) THEN DrlSearch(nb, p)
        ELSE <<[nb EXCEPT !.prime = p], p>>

\* _nib_drl_get_dr(): <<the NIB afterwards, the router or NULL>>
_nib_drl_get_dr(nb) ==
    IF ~((nb.prime = NULL) \/ _node_unreachable(nb.nodes[nb.drs[nb.prime]]))
    THEN <<nb, nb.prime>>
    ELSE DrlSearch(nb, NULL)

\* _nib_drl_ft_get() that takes the prime for primary, reachable or not
_nib_drl_ft_get_prime(nb, drl) ==
    [dst |-> 0, dst_len |-> 0,
     primary |-> (drl = nb.prime),
     next_hop |-> nb.nodes[nb.drs[drl]].ipv6,
     iface |-> _nib_onl_get_if(nb.nodes[nb.drs[drl]])]

\* _nib_drl_ft_get()
_nib_drl_ft_get(nb, drl) ==
    [dst |-> 0, dst_len |-> 0,
     primary |-> (drl = nb.prime) /\
                 ~((nb.prime = NULL) \/
                   _node_unreachable(nb.nodes[nb.drs[nb.prime]])),
     next_hop |-> nb.nodes[nb.drs[drl]].ipv6,
     iface |-> _nib_onl_get_if(nb.nodes[nb.drs[drl]])]

\* ----------------------------------------------------- off-link entries
\* _nib_offl_alloc(): <<the NIB afterwards, the entry or NULL>>
\* _nib_offl_alloc() that writes the prefix length before it asks for the
\* node and leaves it in the slot when there is none
_nib_offl_alloc_claimed(nb, next_hop, iface, pfx, pfx_len) ==
    LET exact == {i \in Offls :
                    /\ nb.dsts[i].pfx_len = pfx_len
                    /\ nb.dsts[i].next_hop # NULL
                    /\ _nib_onl_get_if(nb.nodes[nb.dsts[i].next_hop]) = iface
                    /\ _addr_equals(next_hop, nb.nodes[nb.dsts[i].next_hop])
                    /\ ipv6_addr_match_prefix(nb.dsts[i].pfx, pfx) >= pfx_len}
        free == {i \in Offls : nb.dsts[i].next_hop = NULL}
    IN  IF exact # {}
        THEN LET tmp == Min(exact)
                 n == nb.dsts[tmp].next_hop
                 a == IF next_hop # NULL_ADDR
                      THEN [nb EXCEPT !.nodes[n].ipv6 = next_hop] ELSE nb
             IN  <<[a EXCEPT !.nodes[n].mode = @ \cup {"DST"}], tmp>>
        ELSE IF free = {} THEN <<nb, NULL>>
        ELSE LET dst == Min(free)
                 al == _nib_onl_alloc(nb, next_hop, iface)
                 node == al[2]
             IN  IF node = NULL
                 THEN <<[al[1] EXCEPT !.dsts[dst].pfx_len = pfx_len], NULL>>
                 ELSE LET a == [al[1] EXCEPT !.dsts[dst].next_hop = node]
                          b == _override_node(a, next_hop, iface, node)
                      IN  <<[b EXCEPT
                               !.nodes[node].mode = @ \cup {"DST"},
                               !.dsts[dst].pfx = ipv6_addr_init_prefix(@, pfx, pfx_len),
                               !.dsts[dst].pfx_len = pfx_len],
                            dst>>

_nib_offl_alloc(nb, next_hop, iface, pfx, pfx_len) ==
    LET exact == {i \in Offls :
                    /\ nb.dsts[i].pfx_len = pfx_len
                    /\ nb.dsts[i].next_hop # NULL
                    /\ _nib_onl_get_if(nb.nodes[nb.dsts[i].next_hop]) = iface
                    /\ _addr_equals(next_hop, nb.nodes[nb.dsts[i].next_hop])
                    /\ ipv6_addr_match_prefix(nb.dsts[i].pfx, pfx) >= pfx_len}
        free == {i \in Offls : nb.dsts[i].next_hop = NULL}
    IN  IF exact # {}
        THEN LET tmp == Min(exact)
                 n == nb.dsts[tmp].next_hop
                 a == IF next_hop # NULL_ADDR
                      THEN [nb EXCEPT !.nodes[n].ipv6 = next_hop] ELSE nb
             IN  <<[a EXCEPT !.nodes[n].mode = @ \cup {"DST"}], tmp>>
        ELSE IF free = {} THEN <<nb, NULL>>
        ELSE LET dst == Min(free)
                 al == _nib_onl_alloc(nb, next_hop, iface)
                 node == al[2]
             IN  IF node = NULL
                 THEN <<[al[1] EXCEPT !.dsts[dst] = ZeroOffl], NULL>>
                 ELSE LET a == [al[1] EXCEPT !.dsts[dst].next_hop = node]
                          b == _override_node(a, next_hop, iface, node)
                      IN  <<[b EXCEPT
                               !.nodes[node].mode = @ \cup {"DST"},
                               !.dsts[dst].pfx = ipv6_addr_init_prefix(@, pfx, pfx_len),
                               !.dsts[dst].pfx_len = pfx_len],
                            dst>>

\* _nib_offl_add(): <<the NIB afterwards, the entry or NULL>>
_nib_offl_add(nb, next_hop, iface, pfx, pfx_len, mode) ==
    LET al == _nib_offl_alloc(nb, next_hop, iface, pfx, pfx_len)
    IN  IF al[2] # NULL
        THEN <<[al[1] EXCEPT !.dsts[al[2]].mode = @ \cup {mode}], al[2]>>
        ELSE al

\* _nib_offl_clear() without the search for another entry over the next hop
_nib_offl_clear_unshared(nb, dst) ==
    LET node == nb.dsts[dst].next_hop
    IN  IF node # NULL
        THEN LET a == _nib_onl_clear(
                          [nb EXCEPT !.nodes[node].mode = @ \ {"DST"}], node)
             IN  [a EXCEPT !.dsts[dst] = ZeroOffl]
        ELSE nb

\* _nib_offl_clear() that leaves the DST bit of the next hop set
_nib_offl_clear_keep_dst(nb, dst) ==
    LET node == nb.dsts[dst].next_hop
    IN  IF node # NULL
        THEN LET others == {ptr \in Offls : (dst # ptr) /\
                                            (node = nb.dsts[ptr].next_hop)}
                 a == IF others = {} THEN _nib_onl_clear(nb, node) ELSE nb
             IN  [a EXCEPT !.dsts[dst] = ZeroOffl]
        ELSE nb

\* _nib_offl_clear()
_nib_offl_clear(nb, dst) ==
    LET node == nb.dsts[dst].next_hop
    IN  IF node # NULL
        THEN LET others == {ptr \in Offls : (dst # ptr) /\
                                            (node = nb.dsts[ptr].next_hop)}
                 a == IF others = {}
                      THEN _nib_onl_clear(
                               [nb EXCEPT !.nodes[node].mode = @ \ {"DST"}], node)
                      ELSE nb
             IN  [a EXCEPT !.dsts[dst] = ZeroOffl]
        ELSE nb

\* _nib_offl_remove()
_nib_offl_remove(nb, nib_offl, mode) ==
    LET a == [nb EXCEPT !.dsts[nib_offl].mode = @ \ {mode}]
    IN  IF a.dsts[nib_offl].mode = {} THEN _nib_offl_clear(a, nib_offl) ELSE a

\* the scan of _nib_offl_get_match() from entry on; res is the best entry so
\* far and best_match the bits it matches
RECURSIVE OfflMatchScan(_, _, _, _, _)
OfflMatchScan(nb, dst, entry, res, best_match) ==
    IF entry > NIB_OFFL_NUMOF THEN res
    ELSE LET match == ipv6_addr_match_prefix(nb.dsts[entry].pfx, dst)
         IN  IF /\ nb.dsts[entry].mode # {}
                /\ match > best_match
                /\ match >= nb.dsts[entry].pfx_len
             THEN OfflMatchScan(nb, dst, entry + 1, entry, match)
             ELSE OfflMatchScan(nb, dst, entry + 1, res, best_match)

_nib_offl_get_match(nb, dst) == OfflMatchScan(nb, dst, 1, NULL, 0)

\* _nib_ft_get()
_nib_ft_get(nb, dst) ==
    [dst |-> nb.dsts[dst].pfx, dst_len |-> nb.dsts[dst].pfx_len,
     primary |-> FALSE,
     iface |-> _nib_onl_get_if(nb.nodes[nb.dsts[dst].next_hop]),
     next_hop |-> IF nb.dsts[dst].mode = {"PL"} THEN 0
                  ELSE nb.nodes[nb.dsts[dst].next_hop].ipv6]

\* _nib_get_route() that asks for a default router only without any match
_nib_get_route_no_pl(nb, dst, rec) ==
    LET offl == _nib_offl_get_match(nb, dst)
    IN  IF offl = NULL
        THEN LET g == _nib_drl_get_dr(nb)
                 router == g[2]
             IN  IF router = NULL
                 THEN <<g[1], "-ENETUNREACH", rec, <<router>>>>
                 ELSE <<g[1], "0", _nib_drl_ft_get(g[1], router), <<router>>>>
        ELSE <<nb, "0", _nib_ft_get(nb, offl), <<>>>>

\* _nib_get_route() that is unreachable whenever there is no default router
_nib_get_route_unreach(nb, dst, rec) ==
    LET offl == _nib_offl_get_match(nb, dst)
    IN  IF (offl = NULL) \/ (nb.dsts[offl].mode = {"PL"})
        THEN LET g == _nib_drl_get_dr(nb)
                 router == g[2]
             IN  IF router = NULL
                 THEN <<g[1], "-ENETUNREACH", rec, <<router>>>>
                 ELSE <<g[1], "0", _nib_drl_ft_get(g[1], router), <<router>>>>
        ELSE <<nb, "0", _nib_ft_get(nb, offl), <<>>>>

\* _nib_get_route(): <<the NIB afterwards, the status, the record of the
\* caller afterwards, what the calls of _nib_drl_get_dr() returned>>
_nib_get_route(nb, dst, rec) ==
    LET offl == _nib_offl_get_match(nb, dst)
    IN  IF (offl = NULL) \/ (nb.dsts[offl].mode = {"PL"})
        THEN LET g == _nib_drl_get_dr(nb)
                 router == g[2]
             IN  IF (router = NULL) /\ (offl = NULL)
                 THEN <<g[1], "-ENETUNREACH", rec, <<router>>>>
                 ELSE IF router # NULL
                 THEN <<g[1], "0", _nib_drl_ft_get(g[1], router), <<router>>>>
                 ELSE <<g[1], "0", _nib_ft_get(g[1], offl), <<router>>>>
        ELSE <<nb, "0", _nib_ft_get(nb, offl), <<>>>>

\* -------------------------------------------- prefix list, border routers
\* _nib_pl_remove(), with the multihop prefix and context dissemination
_nib_pl_remove(nb, nib_offl) ==
    LET a == _nib_offl_remove(nb, nib_offl, "PL")
        idx == nib_offl - 1
    IN  IF idx < NIB_OFFL_NUMOF
        THEN [a EXCEPT !.abrs = [r \in Abrs |-> [@[r] EXCEPT !.pfxs = @ \ {idx}]]]
        ELSE a

\* _nib_abr_add(): <<the NIB afterwards, the border router or NULL>>
_nib_abr_add(nb, addr) ==
    LET exact == {r \in Abrs : addr = nb.abrs[r].addr}
        free == {r \in Abrs : nb.abrs[r].addr = 0}
    IN  IF exact # {} THEN <<nb, Min(exact)>>
        ELSE IF free = {} THEN <<nb, NULL>>
        ELSE <<[nb EXCEPT !.abrs[Min(free)].addr = addr], Min(free)>>

\* the loop of _nib_abr_remove() over the prefix bits of abr, from bit i on
RECURSIVE AbrRemovePfxs(_, _, _)
AbrRemovePfxs(nb, abr, i) ==
    IF i >= NIB_OFFL_NUMOF THEN nb
    ELSE IF i \in nb.abrs[abr].pfxs
         THEN AbrRemovePfxs(_nib_pl_remove(nb, i + 1), abr, i + 1)
         ELSE AbrRemovePfxs(nb, abr, i + 1)

\* the loop of _nib_abr_remove() over the border routers, from abr on
RECURSIVE AbrRemoveFrom(_, _, _)
AbrRemoveFrom(nb, addr, abr) ==
    IF abr > NIB_ABR_NUMOF THEN nb
    ELSE IF addr = nb.abrs[abr].addr
         THEN LET a == AbrRemovePfxs(nb, abr, 0)
              IN  AbrRemoveFrom([a EXCEPT !.abrs[abr] = ZeroAbr], addr, abr + 1)
         ELSE AbrRemoveFrom(nb, addr, abr + 1)

\* _nib_abr_remove()
_nib_abr_remove(nb, addr) == AbrRemoveFrom(nb, addr, 1)

\* _nib_abr_add_pfx(): the index is the unsigned difference _dsts - offl
_nib_abr_add_pfx(nb, abr, offl) ==
    LET idx == (0 - (offl - 1)) % UINT_MOD
    IN  IF idx < NIB_OFFL_NUMOF
        THEN [nb EXCEPT !.abrs[abr].pfxs = @ \cup {idx}]
        ELSE nb

\* _nib_offl_iter(): the next entry in use after last, or NULL
_nib_offl_iter(nb, last) ==
    LET used == {o \in Offls : o > last /\ nb.dsts[o].mode # {}}
    IN  IF used = {} THEN NULL ELSE Min(used)

\* the loop of _nib_abr_iter_pfx() over the entries in use after ptr
RECURSIVE AbrIterPfxScan(_, _, _)
AbrIterPfxScan(nb, abr, ptr) ==
    LET p == _nib_offl_iter(nb, ptr)
    IN  IF p = NULL THEN NULL
        ELSE IF ("PL" \in nb.dsts[p].mode) /\ ((p - 1) \in nb.abrs[abr].pfxs)
        THEN p
        ELSE AbrIterPfxScan(nb, abr, p)

\* _nib_abr_iter_pfx(): the next prefix of abr after last, or NULL; the
\* test of last is on the unsigned difference _dsts - last
_nib_abr_iter_pfx(nb, abr, last) ==
    IF (last = NULL) \/ ((0 - (last - 1)) % UINT_MOD < NIB_OFFL_NUMOF)
    THEN AbrIterPfxScan(nb, abr, last)
    ELSE NULL

\* the entries that _nib_abr_iter_pfx() returns from last on, each result
\* handed back as last, until it returns NULL
RECURSIVE AbrIterPfxFrom(_, _, _)
AbrIterPfxFrom(nb, abr, last) ==
    LET o == _nib_abr_iter_pfx(nb, abr, last)
    IN  IF o = NULL THEN <<>> ELSE <<o>> \o AbrIterPfxFrom(nb, abr, o)

\* _nib_pl_add() that does not keep a valid lifetime from becoming
\* UINT32_MAX
_nib_pl_add_no_bump(nb, iface, pfx, pfx_len, valid_ltime, pref_ltime, now) ==
    LET al == _nib_offl_add(nb, NULL_ADDR, iface, pfx, pfx_len, "PL")
        dst == al[2]
        timed == pref_ltime # UINT32_MAX
        pref == IF pref_ltime # UINT32_MAX
                THEN LET p == IF ((pref_ltime + now) % UINT_MOD = UINT32_MAX)
                                 /\ (now # 0)
                              THEN (pref_ltime + 1) % UINT_MOD ELSE pref_ltime
                     IN  (p + now) % UINT_MOD
                ELSE pref_ltime
        valid == IF valid_ltime # UINT32_MAX
                 THEN (valid_ltime + now) % UINT_MOD
                 ELSE valid_ltime
    IN  IF dst = NULL THEN al
        ELSE LET a == IF timed
                      THEN [al[1] EXCEPT !.evt = @ \cup {<<"PFX_TIMEOUT", dst>>},
                                         !.dsts[dst].pfx_timeout = TRUE]
                      ELSE al[1]
             IN  <<[a EXCEPT !.dsts[dst].valid_until = valid,
                             !.dsts[dst].pref_until = pref], dst>>

\* _nib_pl_add() at the millisecond clock now: <<the NIB afterwards, the
\* entry or NULL>>
_nib_pl_add(nb, iface, pfx, pfx_len, valid_ltime, pref_ltime, now) ==
    LET al == _nib_offl_add(nb, NULL_ADDR, iface, pfx, pfx_len, "PL")
        dst == al[2]
        timed == pref_ltime # UINT32_MAX
        pref == IF pref_ltime # UINT32_MAX
                THEN LET p == IF ((pref_ltime + now) % UINT_MOD = UINT32_MAX)
                                 /\ (now # 0)
                              THEN (pref_ltime + 1) % UINT_MOD ELSE pref_ltime
                     IN  (p + now) % UINT_MOD
                ELSE pref_ltime
        valid == IF valid_ltime # UINT32_MAX
                 THEN LET v == IF (valid_ltime + now) % UINT_MOD = UINT32_MAX
                               THEN (valid_ltime + 1) % UINT_MOD ELSE valid_ltime
                      IN  (v + now) % UINT_MOD
                 ELSE valid_ltime
    IN  IF dst = NULL THEN al
        ELSE LET a == IF timed
                      THEN [al[1] EXCEPT !.evt = @ \cup {<<"PFX_TIMEOUT", dst>>},
                                         !.dsts[dst].pfx_timeout = TRUE]
                      ELSE al[1]
             IN  <<[a EXCEPT !.dsts[dst].valid_until = valid,
                             !.dsts[dst].pref_until = pref], dst>>

\* ------------------------------------------------------------- actions
Init ==
    /\ nodes = [n \in Nodes |-> ZeroNode]
    /\ next_removable = <<>>
    /\ def_routers = [d \in Drs |-> NULL]
    /\ prime_def_router = NULL
    /\ dsts = [o \in Offls |-> ZeroOffl]
    /\ abrs = [r \in Abrs |-> ZeroAbr]
    /\ nib_evtimer = {}
    /\ op = [name |-> "_nib_init", args |-> <<>>]
    /\ ret = NULL
    /\ fte = NoFte
    /\ released = 0
    /\ dr_hist = <<>>

\* what a call that is no router selection leaves in the bookkeeping
Called(name, args, r) ==
    /\ op' = [name |-> name, args |-> args]
    /\ ret' = r
    /\ fte' = NoFte
    /\ dr_hist' = <<>>

NcAdd(addr, iface, cstate) ==
    LET r == _nib_nc_add(Nib, addr, iface, cstate)
    IN  /\ Commit(r[1])
        /\ Called("nc_add", <<addr, iface, cstate>>, r[2])

NcRemove(n) ==
    /\ "NC" \in nodes[n].mode
    /\ Commit(_nib_nc_remove(Nib, n))
    /\ Called("nc_remove", <<n>>, NULL)

NcSetReachable(n) ==
    /\ "NC" \in nodes[n].mode
    /\ Commit(_nib_nc_set_reachable(Nib, n))
    /\ Called("nc_set_reachable", <<n>>, NULL)

\* _nib_nc_add(), _nib_nc_remove() of the node it returned, and the same
\* _nib_nc_add() again, for a neighbor that is in no other table
NcAddRemoveAdd(addr, iface, cstate) ==
    LET r1 == _nib_nc_add(Nib, addr, iface, cstate)
        r2 == _nib_nc_remove(r1[1], r1[2])
        r3 == _nib_nc_add(r2, addr, iface, cstate)
    IN  /\ r1[2] # NULL
        /\ r1[1].nodes[r1[2]].mode = {"NC"}
        /\ Commit(r3[1])
        /\ Called("nc_add_remove_add", <<addr, iface, cstate>>, r3[2])

\* the network stack queues a packet on a neighbor that is being resolved
QueuePkt(n) ==
    /\ "NC" \in nodes[n].mode
    /\ nodes[n].nud = "INCOMPLETE"
    /\ nodes[n].pktqueue < MaxPkts
    /\ Commit([Nib EXCEPT !.nodes[n].pktqueue = @ + 1])
    /\ Called("queue_pkt", <<n>>, NULL)

DrlAdd(router_addr, iface) ==
    LET r == _nib_drl_add(Nib, router_addr, iface)
    IN  /\ Commit(r[1])
        /\ Called("drl_add", <<router_addr, iface>>, r[2])

DrlRemove(d) ==
    /\ Commit(_nib_drl_remove(Nib, d))
    /\ Called("drl_remove", <<d>>, NULL)

GetDr ==
    LET r == _nib_drl_get_dr(Nib)
    IN  /\ Commit(r[1])
        /\ op' = [name |-> "get_dr", args |-> <<>>]
        /\ ret' = r[2]
        /\ fte' = NoFte
        /\ dr_hist' = IF Len(dr_hist) < MaxHist THEN Append(dr_hist, r[2])
                      ELSE Append(Tail(dr_hist), r[2])

OfflAdd(next_hop, iface, pfx, pfx_len, kind) ==
    LET r == _nib_offl_add(Nib, next_hop, iface, pfx, pfx_len, kind)
    IN  /\ Commit(r[1])
        /\ Called("offl_add", <<next_hop, iface, pfx, pfx_len, kind>>, r[2])

OfflRemove(o, kind) ==
    /\ kind \in dsts[o].mode
    /\ Commit(_nib_offl_remove(Nib, o, kind))
    /\ Called("offl_remove", <<o, kind>>, NULL)

PlAdd(iface, pfx, pfx_len, valid_ltime, pref_ltime, now) ==
    LET r == _nib_pl_add(Nib, iface, pfx, pfx_len, valid_ltime, pref_ltime, now)
    IN  /\ valid_ltime >= pref_ltime
        /\ Commit(r[1])
        /\ Called("pl_add", <<iface, pfx, pfx_len, valid_ltime, pref_ltime, now>>,
                  r[2])

PlRemove(o) ==
    /\ "PL" \in dsts[o].mode
    /\ Commit(_nib_pl_remove(Nib, o))
    /\ Called("pl_remove", <<o>>, NULL)

AbrAdd(addr) ==
    LET r == _nib_abr_add(Nib, addr)
    IN  /\ Commit(r[1])
        /\ Called("abr_add", <<addr>>, r[2])

AbrAddPfx(abr, o) ==
    /\ abrs[abr].addr # 0
    /\ "PL" \in dsts[o].mode
    /\ Commit(_nib_abr_add_pfx(Nib, abr, o))
    /\ Called("abr_add_pfx", <<abr, o>>, NULL)

\* the router advertisement handler records a context of a border router
AbrAddCtx(abr, c) ==
    /\ abrs[abr].addr # 0
    /\ c \notin abrs[abr].ctxs
    /\ Commit([Nib EXCEPT !.abrs[abr].ctxs = @ \cup {c}])
    /\ Called("abr_add_ctx", <<abr, c>>, NULL)

\* the prefixes of a border router are walked with _nib_abr_iter_pfx()
AbrIterPfx(abr) ==
    /\ abrs[abr].addr # 0
    /\ Commit(Nib)
    /\ Called("abr_iter_pfx", <<abr>>, AbrIterPfxFrom(Nib, abr, NULL))

AbrRemove(addr) ==
    /\ Commit(_nib_abr_remove(Nib, addr))
    /\ Called("abr_remove", <<addr>>, NULL)

GetRoute(dst) ==
    LET r == _nib_get_route(Nib, dst, NoFte)
    IN  /\ Commit(r[1])
        /\ op' = [name |-> "get_route", args |-> <<dst>>]
        /\ ret' = r[2]
        /\ fte' = r[3]
        /\ dr_hist' = r[4]

DrlFtGet(d) ==
    /\ def_routers[d] # NULL
    /\ Commit(Nib)
    /\ op' = [name |-> "drl_ft_get", args |-> <<d>>]
    /\ ret' = NULL
    /\ fte' = _nib_drl_ft_get(Nib, d)
    /\ dr_hist' = <<>>

\* a lifetime that is finite, and the millisecond clock, of the model
FiniteLtime == 1
Now == 1

\* ------------------------------------------------------ specifications
\* Spec: every table of the NIB in use at once.  Neighbors 2 and 3 are
\* being resolved, routers 1 and 2 are advertised, a route leads over next
\* hop 1, and the prefixes are 10/1 and 10/2.
Next ==
    \/ \E a \in 2..3, i \in Ifaces : NcAdd(a, i, "INCOMPLETE")
    \/ \E n \in Nodes : NcRemove(n)
    \/ \E a \in 1..2, i \in Ifaces : DrlAdd(a, i)
    \/ \E d \in Drs : DrlRemove(d)
    \/ GetDr
    \/ \E i \in Ifaces : OfflAdd(1, i, 2, 1, "FT")
    \/ \E o \in Offls : OfflRemove(o, "FT")
    \/ \E i \in Ifaces, l \in PfxLens :
          PlAdd(i, 2, l, FiniteLtime, FiniteLtime, Now)
    \/ \E o \in Offls : PlRemove(o)

Spec == Init /\ [][Next]_vars

\* SpecOnl: the life of the on-link nodes.  As Spec with a single router
\* and a prefix each for the route and the prefix list, and with neighbors
\* that get packets queued and become reachable.
NextOnl ==
    \/ \E a \in 2..3, i \in Ifaces : NcAdd(a, i, "INCOMPLETE")
    \/ \E n \in Nodes : NcRemove(n)
    \/ \E n \in Nodes : NcSetReachable(n)
    \/ \E n \in Nodes : QueuePkt(n)
    \/ \E i \in Ifaces : DrlAdd(1, i)
    \/ \E d \in Drs : DrlRemove(d)
    \/ \E i \in Ifaces : OfflAdd(1, i, 2, 1, "FT")
    \/ \E o \in Offls : OfflRemove(o, "FT")
    \/ \E i \in Ifaces : PlAdd(i, 2, ADDR_BITS, FiniteLtime, FiniteLtime, Now)
    \/ \E o \in Offls : PlRemove(o)

SpecOnl == Init /\ [][NextOnl]_vars

\* SpecRoute: the forwarding path.  Routes over next hop 1 to the prefixes
\* 10/1, 10/2 and 11/2, prefix list entries, a default router 2 that may be
\* unreachable, and route lookups of every destination.
NextRoute ==
    \/ \E i \in Ifaces, p \in 2..3, l \in PfxLens : OfflAdd(1, i, p, l, "FT")
    \/ \E i \in Ifaces : OfflAdd(1, i, 3, ADDR_BITS, "RPL")
    \/ \E o \in Offls, k \in OfflKinds : OfflRemove(o, k)
    \/ \E i \in Ifaces, l \in PfxLens :
          PlAdd(i, 2, l, UINT32_MAX, UINT32_MAX, Now)
    \/ \E o \in Offls : PlRemove(o)
    \/ \E i \in Ifaces : DrlAdd(2, i)
    \/ \E i \in Ifaces : NcAdd(2, i, "UNREACHABLE")
    \/ \E d \in Drs : DrlRemove(d)
    \/ \E d \in AllAddrs : GetRoute(d)

SpecRoute == Init /\ [][NextRoute]_vars

\* SpecDr: the default router selection.  Routers 1 and 2 come and go,
\* their neighbor cache entries change their reachability, and routers are
\* selected.
NextDr ==
    \/ \E a \in 1..2, i \in Ifaces : DrlAdd(a, i)
    \/ \E d \in Drs : DrlRemove(d)
    \/ \E a \in 1..2, i \in Ifaces, s \in NcAddStates : NcAdd(a, i, s)
    \/ \E n \in Nodes : NcRemove(n)
    \/ \E n \in Nodes : NcSetReachable(n)
    \/ GetDr

SpecDr == Init /\ [][NextDr]_vars

\* SpecAbr: the authoritative border routers and the prefixes and contexts
\* they own.
NextAbr ==
    \/ \E a \in Abrs : AbrAdd(a)
    \/ \E r \in Abrs, o \in Offls : AbrAddPfx(r, o)
    \/ \E r \in Abrs, c \in Ctxs : AbrAddCtx(r, c)
    \/ \E a \in Abrs : AbrRemove(a)
    \/ \E r \in Abrs : AbrIterPfx(r)
    \/ \E i \in Ifaces, l \in PfxLens, v \in {FiniteLtime, UINT32_MAX} :
          PlAdd(i, 2, l, v, v, Now)
    \/ \E o \in Offls : PlRemove(o)
    \/ \E i \in Ifaces : OfflAdd(1, i, 2, 1, "FT")
    \/ \E o \in Offls : OfflRemove(o, "FT")

SpecAbr == Init /\ [][NextAbr]_vars

\* SpecFt: the forwarding table records of the default routers.  Routers 1
\* and 2 come and go and are stale or unreachable, the prefix 10/1 is on
\* the link, routers are selected, and records are asked for.
NextFt ==
    \/ \E a \in 1..2, i \in Ifaces : DrlAdd(a, i)
    \/ \E d \in Drs : DrlRemove(d)
    \/ \E a \in 1..2, i \in Ifaces, s \in {"UNREACHABLE", "STALE"} : NcAdd(a, i, s)
    \/ \E n \in Nodes : NcRemove(n)
    \/ GetDr
    \/ \E d \in Drs : DrlFtGet(d)
    \/ \E d \in 1..2 : GetRoute(d)

SpecFt == Init /\ [][NextFt]_vars

\* SpecNc: the neighbor cache under pressure.  Neighbors 1, 2 and 3 contend
\* for the pool, get packets queued and become reachable, and neighbor 1 is
\* a default router as well.
NextNc ==
    \/ \E a \in Addrs, i \in Ifaces, s \in {"INCOMPLETE", "STALE"} : NcAdd(a, i, s)
    \/ \E n \in Nodes : NcRemove(n)
    \/ \E n \in Nodes : NcSetReachable(n)
    \/ \E n \in Nodes : QueuePkt(n)
    \/ \E i \in Ifaces : DrlAdd(1, i)
    \/ \E d \in Drs : DrlRemove(d)
    \/ \E a \in Addrs, i \in 0..MaxIface, s \in {"INCOMPLETE", "STALE"} :
          NcAddRemoveAdd(a, i, s)

SpecNc == Init /\ [][NextNc]_vars

\* SpecPl: the lifetimes of the prefix list.  The prefix 10/2 is added at
\* every value of the millisecond clock, with lifetimes that are short,
\* close to the largest value, or infinite, and removed.
Ltimes == {1, UINT32_MAX - 1, UINT32_MAX}

NextPl ==
    \/ \E i \in Ifaces, v \in Ltimes, p \in Ltimes, now \in 0..UINT32_MAX :
          PlAdd(i, 2, ADDR_BITS, v, p, now)
    \/ \E o \in Offls : PlRemove(o)

SpecPl == Init /\ [][NextPl]_vars

\* SpecAlloc: the allocation of on-link nodes by every table, on the
\* interface 1 and on the undefined interface 0.  Neighbors and routers 1
\* and 2, a route over next hop 1 and the prefix 10/2 come and go.
IfacesOrUndef == 0..MaxIface

NextAlloc ==
    \/ \E a \in 1..2, i \in IfacesOrUndef : NcAdd(a, i, "STALE")
    \/ \E n \in Nodes : NcRemove(n)
    \/ \E a \in 1..2, i \in IfacesOrUndef : DrlAdd(a, i)
    \/ \E d \in Drs : DrlRemove(d)
    \/ \E i \in IfacesOrUndef : OfflAdd(1, i, 2, 1, "FT")
    \/ \E o \in Offls : OfflRemove(o, "FT")
    \/ \E i \in IfacesOrUndef :
          PlAdd(i, 2, ADDR_BITS, UINT32_MAX, UINT32_MAX, Now)
    \/ \E o \in Offls : PlRemove(o)

SpecAlloc == Init /\ [][NextAlloc]_vars

\* ------------------------------------------------------------ properties
\* entry e covers destination d: their first pfx_len bits are equal
Covers(e, d) == \A j \in 1..e.pfx_len : AddrBit(e.pfx, j) = AddrBit(d, j)

\* the number of leading bits of a and b that are equal
LeadingEqual(a, b) ==
    Cardinality({k \in 1..ADDR_BITS : \A j \in 1..k : AddrBit(a, j) = AddrBit(b, j)})

Installed == {o \in Offls : dsts[o].mode # {}}
Covering(d) == {o \in Installed : Covers(dsts[o], d)}
Occupied == {d \in Drs : def_routers[d] # NULL}
Unreachable(d) == nodes[def_routers[d]].nud \in {"UNREACHABLE", "INCOMPLETE"}
Reachable == {d \in Occupied : ~Unreachable(d)}

\* the entry the longest prefix match names: among the entries that cover
\* d, the one that shares the most leading bits with d, the first in the
\* pool among equals; NULL when no entry covers d
BestMatch(d) ==
    IF Covering(d) = {} THEN NULL
    ELSE Min({o \in Covering(d) :
                \A q \in Covering(d) :
                    LeadingEqual(dsts[q].pfx, d) <= LeadingEqual(dsts[o].pfx, d)})

\* the forwarding table record of off-link entry o
OfflFte(o) ==
    [dst |-> dsts[o].pfx, dst_len |-> dsts[o].pfx_len, primary |-> FALSE,
     iface |-> nodes[dsts[o].next_hop].iface,
     next_hop |-> IF dsts[o].mode = {"PL"} THEN 0
                  ELSE nodes[dsts[o].next_hop].ipv6]

\* C1: the off-link entry a route lookup of d returns is the installed
\* entry of the greatest prefix length among those that cover d, wherever
\* the entries sit in the pool.
C1_LongestPrefix ==
    (op.name = "get_route" /\ ret = "0" /\ fte.dst_len > 0) =>
        \A o \in Covering(op.args[1]) : dsts[o].pfx_len <= fte.dst_len

\* C2: a route lookup consults the default router selection exactly when
\* no entry covers the destination or the best match is in the prefix list
\* only.  A best match that is a route is returned, not primary, and the
\* prime router stays; a best match of the prefix list only yields to the
\* default router, if the selection has one.
C2_DrConsulted ==
    [][op'.name = "get_route" =>
        LET d == op'.args[1]
            m == BestMatch(d)
        IN  /\ (dr_hist' # <<>>) <=> ((m = NULL) \/ (dsts[m].mode = {"PL"}))
            /\ (m # NULL /\ dsts[m].mode \cap {"FT", "RPL"} # {}) =>
                  /\ ret' = "0"
                  /\ fte' = OfflFte(m)
                  /\ fte'.primary = FALSE
                  /\ prime_def_router' = prime_def_router
            /\ (m # NULL /\ dsts[m].mode = {"PL"} /\ Occupied # {}) =>
                  /\ ret' = "0"
                  /\ dr_hist'[1] \in Occupied
                  /\ fte'.dst = 0 /\ fte'.dst_len = 0
                  /\ fte'.next_hop = nodes[def_routers[dr_hist'[1]]].ipv6
                  /\ fte' # OfflFte(m)]_vars

\* a best match in the prefix list only yielded to a default router
C2_Witness ==
    /\ op.name = "get_route" /\ ret = "0"
    /\ BestMatch(op.args[1]) # NULL
    /\ dsts[BestMatch(op.args[1])].mode = {"PL"}
    /\ Occupied # {}
    /\ fte.dst_len = 0

\* C3 as it was stated: a route lookup returns 0 only with a next hop, a
\* route that covers the destination or a default router; a match of the
\* prefix list only without a default router is unreachable.
C3_ZeroOnlyWithNextHop ==
    (op.name = "get_route" /\ ret = "0") =>
        \/ \E r \in Occupied :
              /\ fte.dst_len = 0
              /\ fte.next_hop = nodes[def_routers[r]].ipv6
        \/ \E o \in Covering(op.args[1]) :
              /\ dsts[o].mode \cap {"FT", "RPL"} # {}
              /\ fte = OfflFte(o)

\* C3, amended: a route lookup returns -ENETUNREACH exactly when no entry
\* covers the destination and there is no default router, and then the
\* record of the caller is untouched.  Otherwise it returns 0 with a route
\* that covers the destination, with a default router, or, without any
\* default router, with the covering entry of the prefix list only and the
\* unspecified next hop.
C3_Unreachable ==
    op.name = "get_route" =>
        /\ (ret = "-ENETUNREACH") <=> (Covering(op.args[1]) = {} /\ Occupied = {})
        /\ (ret = "-ENETUNREACH") => (fte = NoFte)
        /\ (ret = "0") =>
              \/ \E r \in Occupied :
                    /\ fte.dst_len = 0
                    /\ fte.next_hop = nodes[def_routers[r]].ipv6
                    /\ fte.iface = nodes[def_routers[r]].iface
              \/ \E o \in Covering(op.args[1]) :
                    /\ dsts[o].mode \cap {"FT", "RPL"} # {}
                    /\ fte = OfflFte(o)
              \/ \E o \in Covering(op.args[1]) :
                    /\ dsts[o].mode = {"PL"}
                    /\ Occupied = {}
                    /\ fte = OfflFte(o)
                    /\ fte.next_hop = 0

\* a lookup that found only a prefix list entry and no default router
C3_Witness ==
    /\ op.name = "get_route" /\ ret = "0"
    /\ Occupied = {}
    /\ \E o \in Covering(op.args[1]) : dsts[o].mode = {"PL"} /\ fte = OfflFte(o)

\* C4: every default router slot in use refers to an on-link node that has
\* the DRL bit.
C4_DrNodeHasDrl ==
    \A d \in Drs : def_routers[d] # NULL => "DRL" \in nodes[def_routers[d]].mode

\* the neighbor cache entry of a default router was removed, or a neighbor
\* was added while the pool was full, and the router is still there
C4_Witness ==
    \/ /\ op.name = "nc_remove"
       /\ \E d \in Drs : def_routers[d] = op.args[1]
    \/ /\ op.name = "nc_add" /\ ret = NULL
       /\ Occupied # {}

\* C5: every off-link entry in use has a next hop, an on-link node that has
\* the DST bit.
C5_OfflNodeHasDst ==
    \A o \in Offls : dsts[o].mode # {} =>
        /\ dsts[o].next_hop # NULL
        /\ "DST" \in nodes[dsts[o].next_hop].mode

\* one of two entries over the same next hop was removed, and the next hop
\* is a neighbor cache entry as well
C5_Witness ==
    /\ op.name \in {"pl_remove", "offl_remove"}
    /\ dsts[op.args[1]] = ZeroOffl
    /\ \E o \in Offls : /\ dsts[o].mode # {}
                        /\ "NC" \in nodes[dsts[o].next_hop].mode

\* C6: an on-link node has no mode bit if and only if its whole record is
\* zero, and then it is not in the FIFO either.
C6_EmptyIffZeroed ==
    \A n \in Nodes :
        /\ (nodes[n].mode = {}) <=> (nodes[n] = ZeroNode)
        /\ (nodes[n].mode = {}) =>
              \A k \in 1..Len(next_removable) : next_removable[k] # n

\* a neighbor was removed and its node freed while another neighbor has a
\* packet queued and a timer handle in use
C6_Witness ==
    /\ op.name = "nc_remove"
    /\ nodes[op.args[1]] = ZeroNode
    /\ \E n \in Nodes : nodes[n].pktqueue > 0 /\ nodes[n].nud_timeout

\* C7: the prime default router is NULL or a slot in use whose on-link node
\* is in use.
C7_PrimeOccupied ==
    (prime_def_router # NULL) =>
        /\ def_routers[prime_def_router] # NULL
        /\ nodes[def_routers[prime_def_router]].mode # {}

\* a router was removed, the prime is NULL and another router is in use
C7_Witness ==
    /\ op.name = "drl_remove"
    /\ def_routers[op.args[1]] = NULL
    /\ prime_def_router = NULL
    /\ Occupied # {}

\* C8: after _nib_abr_remove() of a border router, an entry that was given
\* to it with _nib_abr_add_pfx(), at whatever slot of the pool, and to no
\* other border router is no longer in the prefix list, the record of the
\* border router is free, and none of its context bits is left.
C8_AbrRemoveCascade ==
    [][(/\ op.name = "abr_add_pfx"
        /\ op'.name = "abr_remove"
        /\ abrs[op.args[1]].addr = op'.args[1]
        /\ \A r \in Abrs \ {op.args[1]} : (op.args[2] - 1) \notin abrs[r].pfxs) =>
            /\ "PL" \notin dsts'[op.args[2]].mode
            /\ abrs'[op.args[1]] = ZeroAbr]_vars

\* the successor of router d among the routers in use, in the order of the
\* pool, the first one after the last
NextOccupied(d) ==
    IF {e \in Occupied : e > d} # {} THEN Min({e \in Occupied : e > d})
    ELSE Min(Occupied)

\* C9: while every default router is unreachable and the list is left
\* alone, successive router selections return the routers in use in the
\* order of the pool, the first after the last, each of them once in as
\* many selections as there are routers, and each becomes the prime.
C9_Rotation ==
    (Occupied # {} /\ Reachable = {} /\ dr_hist # <<>>) =>
        /\ \A k \in 1..Len(dr_hist) : dr_hist[k] \in Occupied
        /\ \A k \in 1..(Len(dr_hist) - 1) : dr_hist[k + 1] = NextOccupied(dr_hist[k])
        /\ \A k \in 1..Len(dr_hist) :
              (k + Cardinality(Occupied) - 1 <= Len(dr_hist)) =>
                  {dr_hist[j] : j \in k..(k + Cardinality(Occupied) - 1)} = Occupied
        /\ prime_def_router = dr_hist[Len(dr_hist)]

\* two unreachable routers were selected in the order 1, 2, 1, 2
C9_Witness ==
    /\ op.name = "get_dr"
    /\ Occupied = {1, 2} /\ Reachable = {}
    /\ dr_hist = <<1, 2, 1, 2>>

\* C10: the router selection returns the prime and changes nothing while
\* the prime is reachable, even when a router before it is reachable too.
\* Otherwise it returns the first reachable router of the pool and makes
\* it the prime; it returns a reachable router whenever there is one.
C10_KeepReachablePrime ==
    [][op'.name = "get_dr" =>
        /\ (prime_def_router \in Reachable) =>
              /\ ret' = prime_def_router
              /\ UNCHANGED <<nodes, next_removable, def_routers, prime_def_router,
                             dsts, abrs, nib_evtimer>>
        /\ (prime_def_router \notin Reachable /\ Reachable # {}) =>
              /\ ret' = Min(Reachable)
              /\ prime_def_router' = ret'
        /\ (Reachable # {}) => ret' \in Reachable]_vars

\* the prime was kept although the router before it is reachable as well
C10_Witness ==
    /\ op.name = "get_dr"
    /\ Reachable = {1, 2}
    /\ ret = 2 /\ prime_def_router = 2

\* the forwarding table record of default router d
DrFte(d) ==
    [dst |-> 0, dst_len |-> 0,
     primary |-> (d = prime_def_router) /\ (d \in Reachable),
     next_hop |-> nodes[def_routers[d]].ipv6,
     iface |-> nodes[def_routers[d]].iface]

\* C11: the record of a default router, from _nib_drl_ft_get() or from a
\* route lookup that fell back to the default routers, has the destination
\* ::/0 of length 0, the address and the interface of the router, and is
\* primary if and only if the router is the prime and the prime is
\* reachable; a router that the rotation returned while none is reachable
\* is not primary.
C11_DrRecord ==
    /\ (op.name = "drl_ft_get") => (fte = DrFte(op.args[1]))
    /\ (op.name = "get_route" /\ dr_hist # <<>> /\ dr_hist[1] # NULL) =>
          /\ ret = "0"
          /\ fte = DrFte(dr_hist[1])
          /\ (Reachable = {}) => ~fte.primary
          /\ (dr_hist[1] \in Reachable) => fte.primary

\* a lookup got the router that the rotation made the prime while none of
\* the two routers is reachable
C11_Witness ==
    /\ op.name = "get_route" /\ dr_hist # <<>> /\ dr_hist[1] # NULL
    /\ dr_hist[1] = prime_def_router /\ Reachable = {}
    /\ Cardinality(Occupied) = 2

\* the members of the FIFO, and those that are garbage-collectible: the
\* only mode bit is NC and the address registration state is GC
FifoMembers == {next_removable[k] : k \in 1..Len(next_removable)}
GcEligible == {n \in FifoMembers : nodes[n].mode = {"NC"} /\ nodes[n].ar = "GC"}

\* the pool is full and no record matches (a, i): _nib_nc_add(a, i, ...)
\* has to evict
MustEvict(a, i) ==
    /\ \A n \in Nodes : nodes[n].mode # {}
    /\ \A n \in Nodes : ~(nodes[n].iface = i /\ nodes[n].ipv6 \in {a, 0})

\* C12: with the pool full and no record for (address, iface),
\* _nib_nc_add() returns NULL if and only if no member of the FIFO is
\* garbage-collectible; if any member, wherever it is in the FIFO, is
\* garbage-collectible, it succeeds by evicting one.
C12_NullIffNoVictim ==
    [][(op'.name = "nc_add" /\ MustEvict(op'.args[1], op'.args[2])) =>
          ((ret' = NULL) <=> (GcEligible = {}))]_vars

\* the events of the timer that refer to on-link node n
NodeEvents(n) ==
    {e \in nib_evtimer :
        e[1] \in {"SND_NA", "REACH_TIMEOUT", "ADDR_REG_TIMEOUT"} /\ e[2] = n}

\* the record of a neighbor cache entry for (a, i) in state s that was
\* just made, linked in the FIFO
FreshNc(a, i, s) ==
    [ZeroNode EXCEPT !.ipv6 = a, !.iface = i, !.mode = {"NC"}, !.nud = s,
                     !.next = TRUE]

\* the garbage-collectible member of the FIFO closest to its head
OldestGc ==
    next_removable[Min({k \in 1..Len(next_removable) :
                          next_removable[k] \in GcEligible})]

\* C13: whenever _nib_nc_add() succeeds by eviction, the victim is the
\* garbage-collectible entry closest to the head of the FIFO; the record
\* returned has the address and the interface of the caller, the mode NC
\* only, the state asked for and nothing of the victim (no timer, no
\* queued packet), and it is the tail of the FIFO.
C13_EvictOldestGc ==
    [][(/\ op'.name = "nc_add"
        /\ MustEvict(op'.args[1], op'.args[2])
        /\ ret' # NULL) =>
          /\ GcEligible # {}
          /\ ret' = OldestGc
          /\ nodes'[ret'] = FreshNc(op'.args[1], op'.args[2], op'.args[3])
          /\ \A e \in nib_evtimer' :
                ~(e[1] \in {"SND_NA", "REACH_TIMEOUT", "ADDR_REG_TIMEOUT"}
                  /\ e[2] = ret')
          /\ next_removable' # <<>>
          /\ next_removable'[Len(next_removable')] = ret'
          /\ \A k \in 1..(Len(next_removable') - 1) : next_removable'[k] # ret'
          /\ \A n \in Nodes \ {ret'} : nodes'[n] = nodes[n]]_vars

\* a neighbor that had a packet queued was evicted, the packet released,
\* and its node is the tail of the FIFO behind another neighbor
C13_Witness ==
    /\ op.name = "nc_add" /\ ret # NULL
    /\ released > 0
    /\ nodes[ret] = FreshNc(op.args[1], op.args[2], op.args[3])
    /\ Len(next_removable) = 2
    /\ next_removable[2] = ret
    /\ NodeEvents(ret) = {}

\* the members of FIFO f other than node v, in their order
Survivors(f, v) == SelectSeq(f, LAMBDA n : n # v)

\* sequence g is sequence f, turned around by some number of places
Rotated(f, g) ==
    /\ Len(f) = Len(g)
    /\ \E r \in 0..Len(f) :
          \A k \in 1..Len(f) : g[k] = f[((k - 1 + r) % Len(f)) + 1]

\* C14: after a _nib_nc_add() that ran the eviction walk, with a victim or
\* without, every member of the FIFO but the victim is still linked in
\* the FIFO, and the order of these members is what it was.
C14_FifoOrderKept ==
    [][(op'.name = "nc_add" /\ MustEvict(op'.args[1], op'.args[2])) =>
          /\ \A n \in FifoMembers \ {ret'} :
                \E k \in 1..Len(next_removable') : next_removable'[k] = n
          /\ Rotated(Survivors(next_removable, ret'),
                     Survivors(next_removable', ret'))]_vars

\* C15: for a neighbor (a, i) that is in no table but the neighbor cache,
\* _nib_nc_add(a, i, s), _nib_nc_remove() of the record and _nib_nc_add(a,
\* i, s) again leave the record of a single fresh _nib_nc_add(a, i, s): the
\* mode NC only, the state s, no timer pending, no packet queued, and
\* linked in the FIFO exactly once.
C15_AddRemoveAdd ==
    (op.name = "nc_add_remove_add") =>
        /\ ret # NULL
        /\ nodes[ret] = FreshNc(op.args[1], op.args[2], op.args[3])
        /\ NodeEvents(ret) = {}
        /\ Cardinality({k \in 1..Len(next_removable) : next_removable[k] = ret}) = 1

\* the three calls were made for a neighbor that had a packet queued, while
\* another neighbor has a timer pending and the FIFO has two members
C15_Witness ==
    /\ op.name = "nc_add_remove_add" /\ ret # NULL
    /\ released > 0
    /\ Len(next_removable) = 2
    /\ \E e \in nib_evtimer : e[1] = "REACH_TIMEOUT" /\ e[2] # ret

\* C16: no event pending in the timer of the NIB (reachability timeout,
\* SND_NA, address registration timeout) refers to an on-link node that is
\* free, whichever call freed it: _nib_nc_remove(), an eviction,
\* _nib_drl_remove() or the removal of the last off-link entry over it.
C16_NoEventOnFreeNode ==
    \A n \in Nodes : (nodes[n].mode = {}) => (NodeEvents(n) = {})

\* a node that had been set reachable is free, after a call that took its
\* last mode bit, while the timer of another node is pending
C16_Witness ==
    /\ op.name \in {"nc_remove", "drl_remove", "offl_remove", "pl_remove"}
    /\ \E n \in Nodes : nodes[n].mode = {}
    /\ \E e \in nib_evtimer : e[1] = "REACH_TIMEOUT"

\* C17: after _nib_pl_remove(), called directly or by _nib_abr_remove(),
\* freed an off-link entry for which _nib_pl_add() had scheduled a prefix
\* timeout, no prefix timeout that refers to the entry is pending.
C17_PfxTimeoutCancelled ==
    [][(op'.name \in {"pl_remove", "abr_remove"}) =>
          \A o \in Offls :
              (dsts[o].mode # {} /\ dsts'[o].mode = {}) =>
                  (<<"PFX_TIMEOUT", o>> \notin nib_evtimer')]_vars

\* C18: when _nib_nc_remove() removes a neighbor cache entry or
\* _nib_nc_add() evicts one, every packet queued on the entry is released
\* once with EHOSTUNREACH, the queue of the entry is empty afterwards, and
\* no packet is carried over to the record that reuses the node.
C18_QueueReleased ==
    [][/\ (op'.name = "nc_remove") =>
             /\ released' = nodes[op'.args[1]].pktqueue
             /\ nodes'[op'.args[1]].pktqueue = 0
             /\ \A n \in Nodes \ {op'.args[1]} :
                   nodes'[n].pktqueue = nodes[n].pktqueue
       /\ (op'.name = "nc_add" /\ MustEvict(op'.args[1], op'.args[2])
                               /\ ret' # NULL) =>
             /\ released' = nodes[ret'].pktqueue
             /\ nodes'[ret'].pktqueue = 0
             /\ \A n \in Nodes \ {ret'} :
                   nodes'[n].pktqueue = nodes[n].pktqueue
       /\ (op'.name = "nc_add" /\ ~(MustEvict(op'.args[1], op'.args[2])
                                   /\ ret' # NULL)) =>
             /\ released' = 0
             /\ \A n \in Nodes : nodes'[n].pktqueue = nodes[n].pktqueue]_vars

\* a neighbor with a queued packet was evicted and the packet released,
\* while the other neighbor keeps its queued packet
C18_Witness ==
    /\ op.name = "nc_add" /\ ret # NULL
    /\ released = MaxPkts
    /\ nodes[ret].pktqueue = 0
    /\ \E n \in Nodes \ {ret} : nodes[n].pktqueue > 0

\* the absolute deadline of a finite lifetime at the clock now, in 32 bits:
\* their sum, and one more if the sum is UINT32_MAX
Deadline(ltime, now) ==
    LET sum == (ltime + now) % UINT_MOD
    IN  IF sum = UINT32_MAX THEN (sum + 1) % UINT_MOD ELSE sum

\* C19: at every value of the clock, _nib_pl_add() stores an infinite
\* lifetime (UINT32_MAX) as UINT32_MAX and a finite valid or preferred
\* lifetime as its absolute deadline, which is never UINT32_MAX.
C19_LifetimeEncoding ==
    (op.name = "pl_add" /\ ret # NULL) =>
        LET valid_ltime == op.args[4]
            pref_ltime == op.args[5]
            now == op.args[6]
        IN  /\ (valid_ltime = UINT32_MAX) => (dsts[ret].valid_until = UINT32_MAX)
            /\ (pref_ltime = UINT32_MAX) => (dsts[ret].pref_until = UINT32_MAX)
            /\ (valid_ltime # UINT32_MAX) =>
                  /\ dsts[ret].valid_until = Deadline(valid_ltime, now)
                  /\ dsts[ret].valid_until # UINT32_MAX
            /\ (pref_ltime # UINT32_MAX) =>
                  /\ dsts[ret].pref_until = Deadline(pref_ltime, now)
                  /\ dsts[ret].pref_until # UINT32_MAX

\* a finite valid lifetime was added at a clock that makes their sum
\* UINT32_MAX, and the deadline stored is one more, which is 0
C19_Witness ==
    /\ op.name = "pl_add" /\ ret # NULL
    /\ op.args[4] # UINT32_MAX
    /\ op.args[4] + op.args[6] = UINT32_MAX
    /\ op.args[6] > 1
    /\ dsts[ret].valid_until = 0

\* the prefix list entries whose pool index is set in the bitmap of border
\* router r, in the order of the pool
RECURSIVE Ascending(_)
Ascending(S) == IF S = {} THEN <<>> ELSE <<Min(S)>> \o Ascending(S \ {Min(S)})
PfxsOf(r) ==
    Ascending({o \in Offls : "PL" \in dsts[o].mode /\ (o - 1) \in abrs[r].pfxs})

\* what walking _nib_abr_iter_pfx() from NULL returns for border router r
IterOfAbr(r) == AbrIterPfxFrom(Nib, r, NULL)

\* C20: the prefixes of a border router are keyed by the pool index of the
\* off-link entry: after _nib_abr_add_pfx(abr, offl), with offl at any
\* index of the pool, the bit of that index is set in the bitmap of abr,
\* and walking _nib_abr_iter_pfx() from NULL returns the prefix list
\* entries that were added to abr, each once, in the order of the pool.
C20_PfxKeyedByIndex ==
    [][/\ (op'.name = "abr_add_pfx") =>
             \A r \in Abrs : (r = op'.args[1]) =>
                 /\ (op'.args[2] - 1) \in abrs'[r].pfxs
                 /\ \E k \in 1..Len(IterOfAbr(r)') :
                       IterOfAbr(r)'[k] = op'.args[2]
       /\ (op'.name = "abr_iter_pfx") => (ret' = PfxsOf(op'.args[1]))]_vars

\* the on-link nodes in use that hold address a on interface i
Holding(a, i) ==
    {n \in Nodes : nodes[n].mode # {} /\ nodes[n].ipv6 = a /\ nodes[n].iface = i}

\* C21: the allocation of an on-link node returns the record in use that
\* has the same interface and the same address whenever there is one, for
\* every interface, 0 included, and whatever free slots come before it in
\* the pool; so no two records in use hold the same address and interface.
C21_NoDuplicateNode ==
    [][/\ (op'.name = "nc_add" /\ Holding(op'.args[1], op'.args[2]) # {}) =>
             (ret' \in Holding(op'.args[1], op'.args[2]))
       /\ \A n \in Nodes, m \in Nodes :
             (n # m /\ nodes'[n].mode # {} /\ nodes'[m].mode # {}) =>
                 ~(nodes'[n].ipv6 = nodes'[m].ipv6 /\ nodes'[n].iface = nodes'[m].iface)]_vars

\* the number of positions of the FIFO that hold node n
Links(n) == Cardinality({k \in 1..Len(next_removable) : next_removable[k] = n})

\* C22: an on-link node is linked in the FIFO next_removable if and only
\* if it was added as a neighbor cache entry and not freed since: every
\* node whose mode includes NC is linked exactly once, and every member of
\* the FIFO is a node in use.
C22_LinkedIffNc ==
    /\ \A n \in Nodes : ("NC" \in nodes[n].mode) => (Links(n) = 1)
    /\ \A n \in Nodes : (Links(n) > 0) => (Links(n) = 1 /\ nodes[n].mode # {})

\* the off-link entries other than o whose next hop is node n
Sharing(o, n) == {q \in Offls \ {o} : dsts[q].next_hop = n}

\* C23: clearing an off-link entry whose next hop is shared with another
\* off-link entry zeroes only that entry: the node keeps its DST bit, its
\* address and its interface and the other entries are unchanged.  Clearing
\* the last entry that references a node clears the DST bit of the node,
\* and frees the node if and only if no other mode bit remains.
C23_OfflClearFrame ==
    [][(op'.name \in {"offl_remove", "pl_remove"}) =>
          \A o \in Offls, n \in Nodes :
              (o = op'.args[1] /\ n = dsts[o].next_hop /\ dsts'[o].mode = {}) =>
                  /\ dsts'[o] = ZeroOffl
                  /\ \A q \in Offls \ {o} : dsts'[q] = dsts[q]
                  /\ \A m \in Nodes \ {n} : nodes'[m] = nodes[m]
                  /\ IF Sharing(o, n) # {}
                     THEN nodes'[n] = nodes[n]
                     ELSE IF nodes[n].mode = {"DST"}
                     THEN nodes'[n] = ZeroNode /\ n \notin FifoMembers'
                     ELSE /\ nodes'[n] = [nodes[n] EXCEPT !.mode = @ \ {"DST"}]
                          /\ nodes'[n].mode # {}
                          /\ next_removable' = next_removable]_vars

\* a route was removed whose next hop, the node with address 1, is still
\* the next hop of another entry: every other node is in use under another
\* address, so none was freed
C23_Witness ==
    /\ op.name = "offl_remove"
    /\ dsts[op.args[1]] = ZeroOffl
    /\ \E q \in Offls, n \in Nodes :
          /\ dsts[q].next_hop = n
          /\ nodes[n].ipv6 = 1
          /\ "DST" \in nodes[n].mode
          /\ \A m \in Nodes \ {n} : nodes[m].mode # {} /\ nodes[m].ipv6 # 1

\* the step clears bit b of node n and nothing else of the mode, address
\* and interface of any node; n is freed and unlinked if b was its last bit
ClearsOwnBit(n, b) ==
    /\ \A m \in Nodes \ {n} : /\ nodes'[m].mode = nodes[m].mode
                               /\ nodes'[m].ipv6 = nodes[m].ipv6
                               /\ nodes'[m].iface = nodes[m].iface
    /\ IF nodes[n].mode \ {b} # {}
       THEN /\ nodes'[n].mode = nodes[n].mode \ {b}
            /\ nodes'[n].ipv6 = nodes[n].ipv6
            /\ nodes'[n].iface = nodes[n].iface
            /\ next_removable' = next_removable
       ELSE /\ nodes'[n] = ZeroNode
            /\ n \notin FifoMembers'

\* C24: a node that several tables reference is freed exactly when its
\* last mode bit is cleared.  nc_remove, drl_remove and the removal of an
\* off-link entry each clear their own bit only and leave the address, the
\* interface and the other bits as they are while another bit is set; the
\* operation that clears the last bit zeroes the record and unlinks it
\* from the FIFO.
C24_FreedWithLastBit ==
    [][/\ (op'.name = "nc_remove") =>
             \A n \in Nodes : (n = op'.args[1]) => ClearsOwnBit(n, "NC")
       /\ (op'.name = "drl_remove") =>
             \A d \in Drs, n \in Nodes :
                 (d = op'.args[1] /\ n = def_routers[d]) => ClearsOwnBit(n, "DRL")
       /\ (op'.name \in {"offl_remove", "pl_remove"}) =>
             \A o \in Offls, n \in Nodes :
                 (/\ o = op'.args[1] /\ n = dsts[o].next_hop
                  /\ dsts'[o].mode = {} /\ Sharing(o, n) = {}) =>
                     ClearsOwnBit(n, "DST")
       /\ \A n \in Nodes :
             (nodes[n].mode # {} /\ nodes'[n].mode = {}) =>
                 /\ Cardinality(nodes[n].mode) = 1
                 /\ nodes'[n] = ZeroNode
                 /\ n \notin FifoMembers']_vars

\* a neighbor cache entry that also is a default router and a next hop was
\* removed from the neighbor cache and is still in use
C24_Witness ==
    /\ op.name = "nc_remove"
    /\ nodes[op.args[1]].mode = {"DRL", "DST"}
    /\ nodes[op.args[1]].ipv6 = 2
    /\ op.args[1] \in FifoMembers

\* C25: no node is kept in use by a stale mode bit: a node whose mode
\* includes DRL is the node of at least one default router slot, and a
\* node whose mode includes DST is the next hop of at least one off-link
\* slot, also after a failed drl_add, offl_add or pl_add and after an
\* eviction.
C25_NoStaleModeBit ==
    \A n \in Nodes :
        /\ ("DRL" \in nodes[n].mode) => (\E d \in Drs : def_routers[d] = n)
        /\ ("DST" \in nodes[n].mode) => (\E o \in Offls : dsts[o].next_hop = n)

\* a route could not be added, for want of a node, while one node is a
\* default router and one node is a next hop
C25_Witness ==
    /\ op.name = "offl_add"
    /\ ret = NULL
    /\ \E n \in Nodes : "DRL" \in nodes[n].mode
    /\ \E n \in Nodes : "DST" \in nodes[n].mode

\* every slot of the pool of the table that operation name adds to is in use
OwnPoolFull(name) ==
    IF name = "drl_add" THEN \A d \in Drs : def_routers[d] # NULL
    ELSE \A o \in Offls : dsts[o].next_hop # NULL

\* every slot of the pool of the table that operation name adds to is in
\* use for another interface than i
OwnPoolFullOthers(name, i) ==
    IF name = "drl_add"
    THEN \A d \in Drs : /\ def_routers[d] # NULL
                         /\ nodes[def_routers[d]].iface # i
    ELSE \A o \in Offls : /\ dsts[o].next_hop # NULL
                           /\ nodes[dsts[o].next_hop].iface # i

\* C26: drl_add, offl_add and pl_add fail, returning NULL, when their own
\* pool has no free slot or when no on-link node can be obtained, and a
\* failed call leaves the whole NIB as it was: every node, default router
\* slot and off-link slot, the FIFO and the prime router; no slot is half
\* claimed and nothing is evicted.
C26_FailedAddUnchanged ==
    [][(op'.name \in {"drl_add", "offl_add", "pl_add"}) =>
          \A i \in IfacesOrUndef :
              (i = op'.args[IF op'.name = "pl_add" THEN 1 ELSE 2]) =>
                  /\ (ret' = NULL) =>
                        /\ UNCHANGED <<nodes, next_removable, def_routers,
                                       prime_def_router, dsts, abrs, nib_evtimer>>
                        /\ \/ OwnPoolFull(op'.name)
                           \/ \A n \in Nodes : nodes[n].mode # {}
                  /\ OwnPoolFullOthers(op'.name, i) => (ret' = NULL)
                  /\ (\A n \in Nodes : nodes[n].mode # {} /\ nodes[n].iface # i)
                        => (ret' = NULL)]_vars

\* a prefix could not be added because both off-link slots are in use,
\* although a node is free
C26_Witness ==
    /\ op.name = "pl_add"
    /\ ret = NULL
    /\ \A o \in Offls : dsts[o].next_hop # NULL
    /\ \E n \in Nodes : nodes[n].mode = {}

\* C27: nc_add(a, i, s) on an address and interface that already are a
\* neighbor cache entry returns the existing record and leaves its NUD
\* state, whatever it is, its other mode bits and its place in the FIFO
\* as they are, and does not link it a second time; the NUD state of a
\* record becomes s only if the record was no neighbor cache entry before
\* the call.
C27_ExistingNcKept ==
    [][(op'.name = "nc_add") =>
          \A a \in Addrs, i \in IfacesOrUndef, n \in Nodes :
              (/\ a = op'.args[1] /\ i = op'.args[2]
               /\ nodes[n].ipv6 = a /\ nodes[n].iface = i
               /\ nodes[n].mode # {}) =>
                  /\ ret' = n
                  /\ IF "NC" \in nodes[n].mode
                     THEN /\ nodes'[n] = nodes[n]
                          /\ next_removable' = next_removable
                     ELSE /\ nodes'[n].nud = op'.args[3]
                          /\ nodes'[n].mode = nodes[n].mode \cup {"NC"}]_vars

====
